---- MODULE Spec2Model ----
(***************************************************************************)
(* tipup: the result demultiplexing and flag aggregation pipeline.         *)
(*                                                                         *)
(* Two threads: the main thread (load_analyzers, then the poll loop that   *)
(* calls fetch_results and sleeps) and the flag consumer thread spawned in *)
(* main (rx.recv / process_flag).  The result store and the analyzer       *)
(* definitions are the environment.  Demultiplexor, FlagManager and        *)
(* BayesianAnalyzer are declared in main.rs (mod demultiplexor, mod        *)
(* flag_manager, mod analyzer) but their files are not part of the source  *)
(* tree at hand; they are modelled from the specification's sections 4.1   *)
(* to 4.3.  A result document is identified by its hostname, measurement   *)
(* and timestamp.                                                          *)
(***************************************************************************)
EXTENDS Integers, Sequences, FiniteSets

VARIABLES
    store,        \* proddle.results: the set of result documents
    lastSeen,     \* tipup.last_result_seen_timestamp: hostname -> record
    results_seen, \* main.rs:93, the in-memory HashMap<String, i64>
    analyzers,    \* the Demultiplexor's registry: measurement -> registrations
    txMain,       \* main's own Sender handle is still alive (moved into load_analyzers)
    mainpc,       \* position of the main thread
    panicAt,      \* which panic!/unimplemented! ended the main thread
    hostnames,    \* fetch_results: the hostname cursor of this call
    hi,           \* fetch_results: index of the host being processed
    timestamp,    \* fetch_results: the local `timestamp` of the current host
    fetched,      \* fetch_results: the result cursor of the current host
    di,           \* fetch_results: index of the document being dispatched
    ai,           \* send_result: matched registrations already invoked
    sendErr,      \* send_result: an add_result of this call returned Err
    invoked,      \* history: registrations whose add_result ran for this document
    sent,         \* history: documents passed to send_result in this cycle
    calls,        \* history: the add_result calls of this cycle
    sentAtCursor, \* history: documents sent this cycle with timestamp = cursor
    boundary,     \* history: sentAtCursor of the previous cycle
    added,        \* history: a result was stored since this cycle started
    chan,         \* the mpsc channel's queue
    received,     \* history: flags returned by rx.recv, in order
    flagpc,       \* position of the flag consumer thread
    inProcess,    \* number of process_flag calls in progress
    definition,   \* load_analyzers: the definition document of this iteration
    nRead,        \* load_analyzers: definition documents read so far
    started,      \* history: fetch_results has been called
    inFetch,      \* history: fetch_results calls in progress
    storeError,   \* history: the store access of fetch_results that failed
    flagPanicAt   \* which panic! ended the flag consumer thread

vars == <<store, lastSeen, results_seen, analyzers, txMain, mainpc, panicAt,
          hostnames, hi, timestamp, fetched, di, ai, sendErr, invoked, sent,
          calls, sentAtCursor, boundary, added, chan, received, flagpc,
          inProcess, definition, nRead, started, inFetch, storeError,
          flagPanicAt>>

\* The variables by owner, for the actions' frames.
cursorVars == <<lastSeen, results_seen>>
registryVars == <<analyzers, txMain>>
fetchVars == <<hostnames, hi, timestamp, fetched, di>>
sendVars == <<ai, sendErr, invoked>>
cycleVars == <<sent, calls, sentAtCursor>>
flagVars == <<chan, received, flagpc, inProcess>>
loadVars == <<definition, nRead>>
loopVars == <<started, inFetch>>

(***************************************************************************)
(* Bounds of the model.                                                    *)
(***************************************************************************)
MaxDefs == 2      \* analyzer definitions in tipup.analyzers
MaxDocs == 2      \* result documents ever stored
MaxFlags == 2     \* flags ever sent

Hosts == {"h1", "h2"}
Measurements == {"cpu", "disk"}
NoValue == "none"

Doc(h, m, t) == [hostname |-> h, measurement |-> m, timestamp |-> t]

\* The result documents the hosts may store.
Documents ==
    { Doc("h1", "cpu", 1), Doc("h1", "cpu", 2), Doc("h1", "disk", 2),
      Doc("h2", "cpu", 2) }

(***************************************************************************)
(* The analyzer definition documents load_analyzers may read.              *)
(***************************************************************************)
Def(n, c, m, p) == [name |-> n, class |-> c, measurement |-> m, parameters |-> p]

AnalyzerDefs ==
    { Def("a1", "BayesianAnalyzer", "cpu", "array"),
      Def("a2", "BayesianAnalyzer", "cpu", "array"),
      Def("a3", "BayesianAnalyzer", "disk", "array"),
      Def("a4", "ErrorAnalyzer", "cpu", "array"),
      Def("a5", "OtherAnalyzer", "cpu", "array"),
      Def("a6", "BayesianAnalyzer", NoValue, "array"),
      Def("a7", "ErrorAnalyzer", "disk", NoValue),
      Def("a8", NoValue, "cpu", "array"),
      Def(NoValue, "BayesianAnalyzer", "cpu", "array") }

\* No definition document has been read.
NoDef == Def(NoValue, NoValue, NoValue, NoValue)

Names == {d.name : d \in AnalyzerDefs}

(***************************************************************************)
(* Helpers.                                                                *)
(***************************************************************************)
Range(s) == {s[i] : i \in 1..Len(s)}

\* The sequences that enumerate the set S once each.
Enumerations(S) ==
    {s \in [1..Cardinality(S) -> S] : \A i, j \in 1..Cardinality(S) : s[i] = s[j] => i = j}

(***************************************************************************)
(* The stores at process start.  A cursor record is absent, holds an i64   *)
(* timestamp, or holds a timestamp of another BSON type.                   *)
(***************************************************************************)
Absent == [kind |-> "absent", timestamp |-> 0]

CursorRecords ==
    [h1 |-> {Absent, [kind |-> "i64", timestamp |-> 2]},
     h2 |-> {Absent, [kind |-> "other", timestamp |-> 0]}]

Init ==
    /\ store = {}
    /\ lastSeen \in {f \in [Hosts -> UNION {CursorRecords[h] : h \in Hosts}] :
                        \A h \in Hosts : f[h] \in CursorRecords[h]}
    /\ results_seen = << >>
    /\ analyzers = [m \in Measurements |-> << >>]
    /\ txMain = TRUE
    /\ mainpc = "load"
    /\ panicAt = "none"
    /\ hostnames = << >>
    /\ hi = 0
    /\ timestamp = 0
    /\ fetched = << >>
    /\ di = 0
    /\ ai = 0
    /\ sendErr = FALSE
    /\ invoked = << >>
    /\ sent = << >>
    /\ calls = << >>
    /\ sentAtCursor = {}
    /\ boundary = {}
    /\ added = FALSE
    /\ chan = << >>
    /\ received = << >>
    /\ flagpc = "recv"
    /\ inProcess = 0
    /\ definition = NoDef
    /\ nRead = 0
    /\ started = FALSE
    /\ inFetch = 0
    /\ storeError = "none"
    /\ flagPanicAt = "none"

Alive == mainpc # "panicked"

\* panic!/unimplemented! on the main thread: the process ends.
Panic(at) ==
    /\ mainpc' = "panicked"
    /\ panicAt' = at

(***************************************************************************)
(* The environment: a remote host stores one more result.                  *)
(***************************************************************************)
StoreResult ==
    /\ Alive
    /\ Cardinality(store) < MaxDocs
    /\ \E d \in Documents \ store : store' = store \cup {d}
    /\ added' = TRUE
    /\ boundary' = {}
    /\ UNCHANGED <<cursorVars, registryVars, mainpc, panicAt, fetchVars,
                   sendVars, cycleVars, flagVars>>
    /\ UNCHANGED <<loadVars, loopVars, storeError, flagPanicAt>>

(***************************************************************************)
(* load_analyzers, main.rs:108-146.                                        *)
(***************************************************************************)
\* main.rs:114-132: the four fields are present with the expected types.
Parsed(d) ==
    /\ d.name # NoValue
    /\ d.class # NoValue
    /\ d.measurement # NoValue
    /\ d.parameters # NoValue

\* As KnownClass with a match whose default arm builds an analyzer.
KnownClassAny(c) == c # NoValue

\* main.rs:135-139: the classes the match knows.
KnownClass(c) == c \in {"BayesianAnalyzer", "ErrorAnalyzer"}

\* Demultiplexor::add_analyzer: the pair (name, measurement) is registered already.
Registered(reg, n, m) == \E i \in 1..Len(reg[m]) : reg[m][i].name = n

\* Demultiplexor::add_analyzer on success: appended under its measurement.
add_analyzer(reg, n, m, c) ==
    [reg EXCEPT ![m] = Append(@, [name |-> n, class |-> c])]

\* The definitions registered so far.
Loaded(reg) == Len(reg["cpu"]) + Len(reg["disk"])

\* As Loading with load_analyzers called again at the top of the poll loop.
LoadingOrPolling == mainpc \in {"load", "poll"}

\* main.rs:88: load_analyzers runs once, before the poll loop.
Loading == mainpc = "load"

\* As LoadAnalyzer with the result of add_analyzer dropped instead of try!-ed.
LoadAnalyzerIgnoringErr ==
    /\ Loading
    /\ nRead < MaxDefs
    /\ nRead' = nRead + 1
    /\ \E d \in AnalyzerDefs :
        /\ definition' = d
        /\ IF Parsed(d) /\ KnownClass(d.class)
           THEN /\ analyzers' =
                       IF Registered(analyzers, d.name, d.measurement)
                       THEN analyzers
                       ELSE add_analyzer(analyzers, d.name, d.measurement, d.class)
                /\ UNCHANGED <<mainpc, panicAt, txMain>>
           ELSE /\ Panic("load_analyzers")
                /\ txMain' = FALSE
                /\ UNCHANGED analyzers
    /\ UNCHANGED <<store, cursorVars, fetchVars, sendVars, cycleVars, boundary,
                   added, flagVars>>
    /\ UNCHANGED <<loopVars, storeError, flagPanicAt>>

\* One iteration of the for loop over the definitions' cursor.
LoadAnalyzer ==
    /\ Loading
    /\ nRead < MaxDefs
    /\ nRead' = nRead + 1
    /\ \E d \in AnalyzerDefs :
        /\ definition' = d
        /\ IF Parsed(d) /\ KnownClass(d.class)
              /\ ~Registered(analyzers, d.name, d.measurement)
           THEN /\ analyzers' = add_analyzer(analyzers, d.name, d.measurement, d.class)
                /\ UNCHANGED <<mainpc, panicAt, txMain>>
           ELSE \* try!/return Err, then main.rs:88-90
                /\ Panic("load_analyzers")
                /\ txMain' = FALSE
                /\ UNCHANGED analyzers
    /\ UNCHANGED <<store, cursorVars, fetchVars, sendVars, cycleVars, boundary,
                   added, flagVars>>
    /\ UNCHANGED <<loopVars, storeError, flagPanicAt>>

\* The cursor is exhausted: Ok(()), and the tx moved into load_analyzers is dropped.
LoadDone ==
    /\ Loading
    /\ mainpc' = "poll"
    /\ txMain' = FALSE
    /\ definition' = NoDef
    /\ nRead' = 0
    /\ UNCHANGED <<store, cursorVars, analyzers, panicAt, fetchVars, sendVars,
                   cycleVars, boundary, added, flagVars>>
    /\ UNCHANGED <<loopVars, storeError, flagPanicAt>>

(***************************************************************************)
(* fetch_results, main.rs:148-208, and the poll loop, main.rs:99-105.      *)
(***************************************************************************)
\* main.rs:150: distinct("hostname") over proddle.results.
DistinctHostnames(st) == {d.hostname : d \in st}

\* main.rs:159-168: (false, 0) without a record, else the record's i64.
CursorOf(rec) == IF rec.kind = "i64" THEN rec.timestamp ELSE 0

\* As Selected with $gt in place of $gte.
SelectedAfter(st, h, ts) == {d \in st : d.hostname = h /\ d.timestamp > ts}

\* As Selected with the hostname condition of the search document left out.
SelectedAnyHost(st, h, ts) == {d \in st : d.timestamp >= ts}

\* main.rs:171-175: hostname equal and timestamp $gte the cursor.
Selected(st, h, ts) == {d \in st : d.hostname = h /\ d.timestamp >= ts}

\* As Sorted with sort { timestamp: 1 }.
SortedAscending(s) == \A i \in 1..(Len(s) - 1) : s[i].timestamp <= s[i + 1].timestamp

\* main.rs:178-179: sort { timestamp: -1 }.
Sorted(s) == \A i \in 1..(Len(s) - 1) : s[i].timestamp >= s[i + 1].timestamp

\* main.rs:196: the cursor find() returns; equal timestamps come in any order.
Find(st, h, ts) == {s \in Enumerations(Selected(st, h, ts)) : Sorted(s)}

\* As FetchErr with the error logged and the cycle abandoned.
FetchErrSkipped(access) ==
    /\ storeError' = access
    /\ mainpc' = "sleep"
    /\ UNCHANGED panicAt

\* A try! of fetch_results returns Err; main.rs:100-102 panics on it.
FetchErr(access) ==
    /\ storeError' = access
    /\ Panic("fetch_results")

\* As LoopReady with the next call not waiting for the sleep to end.
LoopReadyAsleep == mainpc \in {"poll", "sleep"}

\* main.rs:99-100: the main thread is at the top of the loop.
LoopReady == mainpc = "poll"

\* main.rs:100 and 150: fetch_results is called and enumerates the hostnames.
StartCycle ==
    /\ LoopReady
    /\ started' = TRUE
    /\ inFetch' = inFetch + 1
    /\ added' = FALSE
    /\ \/ /\ hostnames' \in Enumerations(DistinctHostnames(store))
          /\ hi' = 0
          /\ mainpc' = "hosts"
          /\ UNCHANGED <<panicAt, storeError>>
       \/ \* main.rs:150: distinct() fails
          /\ FetchErr("hostnames")
          /\ UNCHANGED <<hostnames, hi>>
    /\ UNCHANGED <<store, cursorVars, registryVars, timestamp, fetched, di,
                   sendVars, cycleVars, boundary, flagVars>>
    /\ UNCHANGED <<loadVars, flagPanicAt>>

\* main.rs:151-196: the next hostname, its cursor record and its find().
BeginHost ==
    /\ mainpc = "hosts"
    /\ hi < Len(hostnames)
    /\ hi' = hi + 1
    /\ LET h == hostnames[hi + 1] IN
       \/ \* main.rs:159: find_one() fails
          /\ FetchErr("cursor")
          /\ UNCHANGED <<timestamp, fetched, di>>
       \/ \* main.rs:164: the record's timestamp is no i64
          /\ lastSeen[h].kind = "other"
          /\ FetchErr("timestamp")
          /\ UNCHANGED <<timestamp, fetched, di>>
       \/ \* main.rs:196: find() fails
          /\ lastSeen[h].kind # "other"
          /\ timestamp' = CursorOf(lastSeen[h])
          /\ FetchErr("find")
          /\ UNCHANGED <<fetched, di>>
       \/ /\ lastSeen[h].kind # "other"
          /\ timestamp' = CursorOf(lastSeen[h])
          /\ fetched' \in Find(store, h, CursorOf(lastSeen[h]))
          /\ di' = 0
          /\ mainpc' = "docs"
          /\ UNCHANGED <<panicAt, storeError>>
    /\ UNCHANGED <<store, cursorVars, registryVars, hostnames, sendVars,
                   cycleVars, boundary, added, flagVars>>
    /\ UNCHANGED <<loadVars, loopVars, flagPanicAt>>

\* main.rs:197-198: the cursor's next document.
NextDocument(s, i) == s[i + 1]

\* main.rs:197-199: the next document of the cursor goes to send_result.
NextDoc ==
    /\ mainpc = "docs"
    /\ di < Len(fetched)
    /\ di' = di + 1
    /\ \/ LET document == NextDocument(fetched, di) IN
           /\ sent' = Append(sent, document)
           /\ sentAtCursor' = IF document.timestamp = timestamp
                              THEN sentAtCursor \cup {document}
                              ELSE sentAtCursor
           /\ mainpc' = "send"
           /\ ai' = 0
           /\ sendErr' = FALSE
           /\ invoked' = << >>
           /\ UNCHANGED <<panicAt, storeError>>
       \/ \* main.rs:198: the cursor yields Err
          /\ FetchErr("document")
          /\ UNCHANGED <<sent, sentAtCursor, sendVars>>
    /\ UNCHANGED <<store, cursorVars, registryVars, hostnames, hi, timestamp,
                   fetched, calls, boundary, added, flagVars>>
    /\ UNCHANGED <<loadVars, loopVars, flagPanicAt>>

(***************************************************************************)
(* Demultiplexor::send_result and the analyzers' add_result.               *)
(***************************************************************************)
\* Demultiplexor::send_result: the registrations of the document's measurement.
Lookup(reg, m) == reg[m]

\* The document send_result is working on.
Current == sent[Len(sent)]

\* The flag channel has lost its Receiver: the consumer thread is gone.
Disconnected == flagpc = "panicked"

\* The flags analyzer n has sent on its handle so far.
FlagsSent(n) ==
    LET all == received \o chan IN
    Cardinality({i \in 1..Len(all) : all[i].analyzer = n})

\* Sender::send of k flags on the handle of analyzer n; Err without a Receiver.
SendFlags(q, n, k) ==
    IF Disconnected THEN q
    ELSE q \o [j \in 1..k |-> [analyzer |-> n, seq |-> FlagsSent(n) + j]]

\* send_result calls add_result of the next matched registration.
Call(r) ==
    /\ invoked' = Append(invoked, r.name)
    /\ calls' = Append(calls, [analyzer |-> r.name, slot |-> ai + 1,
                               document |-> Current])
    /\ ai' = ai + 1

\* error_analyzer.rs:24-26: unimplemented!() unwinds the main thread.
InvokeError ==
    /\ mainpc = "send"
    /\ LET matched == Lookup(analyzers, Current.measurement) IN
        /\ ai < Len(matched)
        /\ matched[ai + 1].class = "ErrorAnalyzer"
        /\ Call(matched[ai + 1])
    /\ Panic("add_result")
    /\ UNCHANGED <<store, cursorVars, registryVars, fetchVars, sendErr, sent,
                   sentAtCursor, boundary, added, flagVars>>
    /\ UNCHANGED <<loadVars, loopVars, storeError, flagPanicAt>>

\* BayesianAnalyzer::add_result: Ok or Err, after sending zero or more flags.
InvokeBayesian ==
    /\ mainpc = "send"
    /\ LET matched == Lookup(analyzers, Current.measurement) IN
        /\ ai < Len(matched)
        /\ matched[ai + 1].class = "BayesianAnalyzer"
        /\ Call(matched[ai + 1])
        /\ \E k \in 0..(MaxFlags - Len(chan) - Len(received)) :
            chan' = SendFlags(chan, matched[ai + 1].name, k)
    /\ \E failed \in BOOLEAN : sendErr' = (sendErr \/ failed)
    /\ UNCHANGED <<store, cursorVars, registryVars, mainpc, panicAt, fetchVars,
                   sent, sentAtCursor, boundary, added, received, flagpc,
                   inProcess>>
    /\ UNCHANGED <<loadVars, loopVars, storeError, flagPanicAt>>

\* send_result returns; main.rs:199-201 panics on Err.
SendReturn ==
    /\ mainpc = "send"
    /\ ai = Len(Lookup(analyzers, Current.measurement))
    /\ IF sendErr
       THEN /\ Panic("send_result")
            /\ UNCHANGED sendVars
       ELSE /\ mainpc' = "docs"
            /\ ai' = 0
            /\ sendErr' = FALSE
            /\ invoked' = << >>
            /\ UNCHANGED panicAt
    /\ UNCHANGED <<store, cursorVars, registryVars, fetchVars, cycleVars,
                   boundary, added, flagVars>>
    /\ UNCHANGED <<loadVars, loopVars, storeError, flagPanicAt>>

\* As HostDone with the TODO done: the newest timestamp fetched is written back.
HostDoneWritingCursor ==
    /\ mainpc = "docs"
    /\ di = Len(fetched)
    /\ mainpc' = "hosts"
    /\ fetched' = << >>
    /\ di' = 0
    /\ lastSeen' = IF fetched = << >> THEN lastSeen
                   ELSE [lastSeen EXCEPT ![hostnames[hi]] =
                            [kind |-> "i64", timestamp |-> fetched[1].timestamp]]
    /\ UNCHANGED <<store, results_seen, registryVars, panicAt, hostnames, hi,
                   timestamp, sendVars, cycleVars, boundary, added, flagVars>>
    /\ UNCHANGED <<loadVars, loopVars, storeError, flagPanicAt>>

\* main.rs:202-205: the cursor is exhausted; the TODO writes no timestamp back.
HostDone ==
    /\ mainpc = "docs"
    /\ di = Len(fetched)
    /\ mainpc' = "hosts"
    /\ fetched' = << >>
    /\ di' = 0
    /\ UNCHANGED <<store, cursorVars, registryVars, panicAt, hostnames, hi,
                   timestamp, sendVars, cycleVars, boundary, added, flagVars>>
    /\ UNCHANGED <<loadVars, loopVars, storeError, flagPanicAt>>

\* main.rs:207 and 104: Ok(()), then thread::sleep.
CycleDone ==
    /\ mainpc = "hosts"
    /\ hi = Len(hostnames)
    /\ mainpc' = "sleep"
    /\ boundary' = IF added THEN {} ELSE sentAtCursor
    /\ hostnames' = << >>
    /\ hi' = 0
    /\ timestamp' = 0
    /\ sent' = << >>
    /\ calls' = << >>
    /\ sentAtCursor' = {}
    /\ inFetch' = inFetch - 1
    /\ UNCHANGED <<store, cursorVars, registryVars, panicAt, fetched, di,
                   sendVars, added, flagVars>>
    /\ UNCHANGED <<loadVars, started, storeError, flagPanicAt>>

\* main.rs:104-105: the sleep ends and the loop comes round.
Wake ==
    /\ mainpc = "sleep"
    /\ mainpc' = "poll"
    /\ UNCHANGED <<store, cursorVars, registryVars, panicAt, fetchVars,
                   sendVars, cycleVars, boundary, added, flagVars>>
    /\ UNCHANGED <<loadVars, loopVars, storeError, flagPanicAt>>

(***************************************************************************)
(* The flag consumer thread, main.rs:67-79.                                *)
(***************************************************************************)
\* As ConsumerReady with process_flag handed to a thread of its own.
ConsumerReadyWhileProcessing == flagpc \in {"recv", "process"}

\* main.rs:69-70: the thread is at rx.recv().
ConsumerReady == flagpc = "recv"

\* As Oldest for a stack: the message queued last.
Newest(q) == q[Len(q)]

\* mpsc: recv takes the oldest queued message.
Oldest(q) == Head(q)

\* Some Sender handle is alive: main's own, or an analyzer's clone.
SendersAlive == txMain \/ \E m \in Measurements : analyzers[m] # << >>

\* main.rs:70-71: recv returns Ok(flag); main.rs:75: process_flag is entered.
FlagRecv ==
    /\ Alive
    /\ ConsumerReady
    /\ chan # << >>
    /\ received' = Append(received, Oldest(chan))
    /\ chan' = Tail(chan)
    /\ flagpc' = "process"
    /\ inProcess' = inProcess + 1
    /\ UNCHANGED <<store, cursorVars, registryVars, mainpc, panicAt, fetchVars,
                   sendVars, cycleVars, boundary, added>>
    /\ UNCHANGED <<loadVars, loopVars, storeError, flagPanicAt>>

\* main.rs:70-72: every Sender is dropped and the queue is empty: recv is Err.
FlagRecvErr ==
    /\ Alive
    /\ flagpc = "recv"
    /\ chan = << >>
    /\ ~SendersAlive
    /\ flagpc' = "panicked"
    /\ flagPanicAt' = "recv"
    /\ UNCHANGED <<store, cursorVars, registryVars, mainpc, panicAt, fetchVars,
                   sendVars, cycleVars, boundary, added, chan, received,
                   inProcess>>
    /\ UNCHANGED <<loadVars, loopVars, storeError>>

\* As ProcessFlag without the loop of main.rs:69: the thread ends after a flag.
ProcessFlagOnce ==
    /\ Alive
    /\ flagpc = "process"
    /\ inProcess' = inProcess - 1
    /\ \E ok \in BOOLEAN :
        IF ok
        THEN flagpc' = "done" /\ UNCHANGED <<chan, flagPanicAt>>
        ELSE flagpc' = "panicked" /\ chan' = << >> /\ flagPanicAt' = "process_flag"
    /\ UNCHANGED <<store, cursorVars, registryVars, mainpc, panicAt, fetchVars,
                   sendVars, cycleVars, boundary, added, received>>
    /\ UNCHANGED <<loadVars, loopVars, storeError>>

\* FlagManager::process_flag returns; main.rs:75-77 panics the thread on Err.
ProcessFlag ==
    /\ Alive
    /\ flagpc = "process"
    /\ inProcess' = inProcess - 1
    /\ \E ok \in BOOLEAN :
        IF ok
        THEN flagpc' = "recv" /\ UNCHANGED <<chan, flagPanicAt>>
        ELSE \* the thread unwinds and drops rx with what is queued
             flagpc' = "panicked" /\ chan' = << >> /\ flagPanicAt' = "process_flag"
    /\ UNCHANGED <<store, cursorVars, registryVars, mainpc, panicAt, fetchVars,
                   sendVars, cycleVars, boundary, added, received>>
    /\ UNCHANGED <<loadVars, loopVars, storeError>>

Next ==
    \/ StoreResult
    \/ LoadAnalyzer
    \/ LoadDone
    \/ StartCycle
    \/ BeginHost
    \/ NextDoc
    \/ InvokeError
    \/ InvokeBayesian
    \/ SendReturn
    \/ HostDone
    \/ CycleDone
    \/ Wake
    \/ FlagRecv
    \/ FlagRecvErr
    \/ ProcessFlag

Spec == Init /\ [][Next]_vars

\* The consumer is a thread of its own: the scheduler lets it run.
SpecLive == Spec /\ WF_vars(FlagRecv) /\ WF_vars(ProcessFlag)

(***************************************************************************)
(* Properties.                                                             *)
(***************************************************************************)
\* The hosts whose iteration of the running fetch_results call has ended.
DoneHosts ==
    IF mainpc = "hosts" THEN {hostnames[i] : i \in 1..hi}
    ELSE IF mainpc \in {"docs", "send"} THEN {hostnames[i] : i \in 1..(hi - 1)}
    ELSE {}

\* The documents sent for host h in this cycle.
SentFor(h) == {sent[i] : i \in {j \in 1..Len(sent) : sent[j].hostname = h}}

\* The names registered under measurement m.
RegisteredFor(m) == {analyzers[m][i].name : i \in 1..Len(analyzers[m])}

\* send_result has done all it will do for the current document.
SendOver ==
    \/ mainpc = "send" /\ ai = Len(analyzers[Current.measurement])
    \/ mainpc = "panicked" /\ panicAt \in {"add_result", "send_result"}

\* C1: once a host's iteration of a cycle has ended without error, the host's
\* persisted cursor is not below the cursor read for it and is at least the
\* timestamp of every document sent for it in that cycle.
C1_CursorAdvanced ==
    /\ \A h \in DoneHosts : \A d \in SentFor(h) :
           CursorOf(lastSeen[h]) >= d.timestamp
    /\ (mainpc = "hosts" /\ hi > 0) =>
           CursorOf(lastSeen[hostnames[hi]]) >= timestamp

\* C2: a document sent in the previous cycle with timestamp equal to its host's
\* cursor is not sent again in this cycle when no result was stored since.
C2_NoRedelivery == \A i \in 1..Len(sent) : sent[i] \notin boundary

\* C3: an add_result failure reported by send_result does not end the process.
C3_SendErrorNotFatal == ~(mainpc = "panicked" /\ panicAt = "send_result")

\* C4: when an analyzer registered for the document's measurement fails, every
\* analyzer registered for that measurement is still invoked with the document
\* and the failure is returned to send_result's caller.
C4_Isolation ==
    (SendOver /\ (sendErr \/ panicAt = "add_result")) =>
        /\ RegisteredFor(Current.measurement) \subseteq Range(invoked)
        /\ panicAt # "add_result"

\* C5: send_result invokes exactly the analyzers registered for the document's
\* measurement, and with no such registration invokes none and returns no error.
C5_Routing ==
    SendOver =>
        /\ Range(invoked) = RegisteredFor(Current.measurement)
        /\ RegisteredFor(Current.measurement) = {} => (invoked = << >> /\ ~sendErr)

C7_SingleProcessFlag == inProcess <= 1

\* A flag waits in the queue while process_flag is running.
C7_Witness == inProcess = 1 /\ chan # << >>

\* C8: the documents of the current host were sent in the order of its fetch,
\* a host's documents are sent newest first, and each analyzer is called with
\* a host's documents in non-increasing timestamp order.
C8_FetchOrder ==
    /\ mainpc \in {"docs", "send"} =>
           \A i \in 1..di : sent[Len(sent) - di + i] = fetched[i]
    /\ \A i, j \in 1..Len(sent) :
           (i < j /\ sent[i].hostname = sent[j].hostname) =>
               sent[i].timestamp >= sent[j].timestamp
    /\ \A i, j \in 1..Len(calls) :
           (/\ i < j
            /\ calls[i].analyzer = calls[j].analyzer
            /\ calls[i].slot = calls[j].slot
            /\ calls[i].document.hostname = calls[j].document.hostname) =>
               calls[i].document.timestamp >= calls[j].document.timestamp

\* An analyzer was called with two documents of a host, a newer then an older.
C8_Witness ==
    \E i, j \in 1..Len(calls) :
        /\ i < j
        /\ calls[i].analyzer = calls[j].analyzer
        /\ calls[i].slot = calls[j].slot
        /\ calls[i].document.hostname = calls[j].document.hostname
        /\ calls[i].document.timestamp > calls[j].document.timestamp

\* C9: within one cycle no document is sent twice and no analyzer is called
\* twice with the same document.
C9_AtMostOnce ==
    /\ \A i, j \in 1..Len(sent) : sent[i] = sent[j] => i = j
    /\ \A i, j \in 1..Len(calls) : calls[i] = calls[j] => i = j

\* A cycle over two hosts has sent two documents and made two calls.
C9_Witness ==
    /\ mainpc = "hosts"
    /\ hi = 2
    /\ Len(sent) = 2
    /\ Len(calls) >= 2

\* C10: ErrorAnalyzer's add_result returns to its caller, never aborting.
C10_ErrorAnalyzerReturns == panicAt # "add_result"

\* The definition document is malformed or names no known class.
BadDef(d) ==
    /\ d # NoDef
    /\ \/ d.name = NoValue
       \/ d.measurement = NoValue
       \/ d.parameters = NoValue
       \/ d.class \notin {"BayesianAnalyzer", "ErrorAnalyzer"}

\* C11: once load_analyzers has read a malformed definition or one of an
\* unknown class, the process has ended at startup: no fetch_results call was
\* made and no document was dispatched.
C11_BadDefinitionFatal ==
    BadDef(definition) =>
        /\ mainpc = "panicked"
        /\ panicAt = "load_analyzers"
        /\ ~started
        /\ sent = << >>
        /\ calls = << >>

\* A definition is registered and the next one read is bad.
C11_Witness ==
    /\ BadDef(definition)
    /\ Loaded(analyzers) > 0
    /\ mainpc = "panicked"

\* C12: reading a definition whose (name, measurement) is registered already
\* ends the process at startup and leaves the registry with the first
\* registration only.
C12_DuplicateRejected ==
    [][(/\ nRead' = nRead + 1
        /\ Parsed(definition')
        /\ Registered(analyzers, definition'.name, definition'.measurement)) =>
            /\ mainpc' = "panicked"
            /\ panicAt' = "load_analyzers"
            /\ ~started'
            /\ analyzers' = analyzers
            /\ Cardinality({i \in 1..Len(analyzers'[definition'.measurement]) :
                   analyzers'[definition'.measurement][i].name = definition'.name}) = 1
      ]_vars

\* load_analyzers has failed on a well-formed definition of a known class.
C12_Witness ==
    /\ mainpc = "panicked"
    /\ panicAt = "load_analyzers"
    /\ ~BadDef(definition)
    /\ definition.name \in RegisteredFor(definition.measurement)

\* C13: after a process_flag failure no fetch_results call starts and no
\* document is dispatched.
C13_FlagFailureFatal ==
    [][flagPanicAt = "process_flag" =>
           /\ inFetch' <= inFetch
           /\ Len(sent') <= Len(sent)
      ]_vars

\* The host's iteration is over: it ran to its end, or the process ended in
\* the fetch_results call that was to handle it.
HandledHosts ==
    IF mainpc = "panicked" /\ inFetch = 1 THEN Range(hostnames) ELSE DoneHosts

LastSent(n) == {sent[i] : i \in (Len(sent) - n + 1)..Len(sent)}

C15_OneCycleAtATime ==
    [][/\ inFetch' <= 1
       /\ inFetch' > inFetch => (inFetch = 0 /\ mainpc = "poll")
       /\ (mainpc' = "poll" /\ mainpc # "poll") => mainpc \in {"load", "sleep"}
       /\ (mainpc' = "sleep" /\ mainpc # "sleep") => (mainpc = "hosts" /\ inFetch' = 0)
      ]_vars

\* A later cycle is running after one that sent a document.
C15_Witness ==
    /\ inFetch = 1
    /\ mainpc = "send"
    /\ boundary # {}

\* C16: a failed store access of fetch_results ends the process: the documents
\* sent so far stay sent, and afterwards no document is sent and no call starts.
C16_StoreErrorFatal ==
    [][/\ (storeError = "none" /\ storeError' # "none") =>
              /\ mainpc' = "panicked"
              /\ panicAt' = "fetch_results"
              /\ sent' = sent
              /\ calls' = calls
       /\ storeError # "none" => UNCHANGED <<mainpc, sent, calls, inFetch>>
      ]_vars

\* The second host's store access failed after a document was sent.
C16_Witness ==
    /\ storeError # "none"
    /\ hi = 2
    /\ sent # << >>
    /\ mainpc = "panicked"

\* C17: once fetch_results has been called, no definition is read and the
\* registry does not change.
C17_RegistryFrozen ==
    [][started => (analyzers' = analyzers /\ nRead' = nRead)]_vars

\* send_result has returned after invoking an analyzer.
C17_Witness ==
    /\ started
    /\ mainpc = "docs"
    /\ calls # << >>

\* A fatal error has occurred in one of the two threads.
Fatal == ~Alive \/ flagpc = "panicked"

\* C18: every flag sent is eventually received and handed to process_flag,
\* unless a fatal error occurs.
C18_FlagsDelivered ==
    \A k \in 1..MaxFlags :
        (Len(received) + Len(chan) >= k) ~> (Len(received) >= k \/ Fatal)

\* Two flags have been processed and the consumer is back at recv.
C18_Witness ==
    /\ Len(received) >= 2
    /\ flagpc = "recv"
    /\ inProcess = 0
    /\ Alive

\* C19: while the fetch loop runs and no process_flag call has failed, the
\* consumer thread is at recv or in process_flag.
C19_ConsumerAlive ==
    (mainpc \in {"poll", "hosts", "docs", "send", "sleep"}
        /\ flagPanicAt # "process_flag") =>
            flagpc \in {"recv", "process"}

\* C20: no step changes a persisted cursor record or results_seen.
C20_CursorNeverWritten == [][UNCHANGED <<lastSeen, results_seen>>]_vars

\* A host's iteration has ended after sending a document newer than its cursor.
C20_Witness ==
    /\ mainpc = "hosts"
    /\ hi > 0
    /\ \E d \in SentFor(hostnames[hi]) :
           d.timestamp > CursorOf(lastSeen[hostnames[hi]])

====
